---- MODULE Spec2Model ----
(***************************************************************************)
(* State-machine model of the tweet collector: the ingestion pipeline      *)
(* (routes/tweets.py, services/tweet_service.py), the upstream client      *)
(* (services/twitter_client.py), the record store (models.py) and the      *)
(* read-only entry points (listing, hashtag report, volume report).        *)
(*                                                                         *)
(* Concurrent requests interleave at their I/O points only: the upstream   *)
(* search, the existence lookup and the commit of one record.              *)
(***************************************************************************)
EXTENDS Integers, Sequences, FiniteSets, TLC

VARIABLES
    bearer_token,    \* settings.bearer_token is set (config.py)
    twitter_client,  \* the module-level client instance, or "None"
    store,           \* the tweets table: sequence of committed rows, in insertion order
    faults,          \* storage faults injected so far
    call,            \* per request: the position and locals of collect_tweets
    response         \* the answer of the last read-only entry point

vars == <<bearer_token, twitter_client, store, faults, call, response>>

----------------------------------------------------------------------------
(* Bounds of the model *)

\* number of worker processes, each handling one collect request at a time
NumCalls == 2
\* longest upstream batch
MaxBatch == 2
\* storage faults (store unreachable at a lookup, a commit or a refresh) per behaviour
MaxFaults == 1

Calls == 1..NumCalls

----------------------------------------------------------------------------
(* Values *)

\* Python None
None == "None"
\* a key that the upstream JSON object does not hold
Absent == "<absent>"

\* Queries a caller may send; StrLen and Strip model len() and str.strip() on them
Queries == {"", " ", "python"}
StrLen(q) == CASE q = "" -> 0 [] q = " " -> 1 [] OTHER -> 6
Strip(q) == IF q = " " THEN "" ELSE q

\* max_results values a caller may send
MaxResultsInputs == {0, 1, 10, 101}

\* Texts of upstream posts
TextA == "Hello #FastAPI"
TextB == "#fastapi #py"
TextC == "#py #Py #ai"

\* created_at as sent by the upstream: a string described by its date body, its
\* hour and its suffix, or a value that is not a string
DateStr(body, hour, suffix) == [kind |-> "str", body |-> body, hour |-> hour, suffix |-> suffix]
DateNone == [kind |-> "none", body |-> "", hour |-> 0, suffix |-> ""]
DateNumber == [kind |-> "number", body |-> "", hour |-> 0, suffix |-> ""]
DateZ == DateStr("2025-01-01", 10, "Z")
DateBad == DateStr("not-a-date", 0, "")

\* One upstream record: dict tells a JSON object from any other JSON value; a
\* field holds its value, None (JSON null) or Absent (no such key)
Rec(id, author, text, created) ==
    [dict |-> TRUE, id |-> id, author_id |-> author, text |-> text, created_at |-> created]
NotADict ==
    [dict |-> FALSE, id |-> Absent, author_id |-> Absent, text |-> Absent, created_at |-> DateNone]

\* the upstream records of the concurrent specification: two posts with the same
\* id and different data, and one other post
RaceRecords ==
    { Rec("42", "u1", TextA, DateZ),
      Rec("42", "u2", TextB, DateBad),
      Rec("7", Absent, Absent, DateNone) }

\* the upstream records of the serial specification: also a null text, an id that
\* is not usable, a created_at that is not a string, a value that is not an object
UpstreamRecords ==
    RaceRecords \cup
    { Rec("7", "u2", None, DateZ),
      Rec(None, "u1", TextA, DateZ),
      Rec("9", "u1", TextB, DateNumber),
      NotADict }

\* well-formed ISO-8601 timestamps with an explicit offset
DatePlus0 == DateStr("2025-01-01", 10, "+00:00")
DatePlus2 == DateStr("2025-01-01", 10, "+02:00")
DateMinus5 == DateStr("2025-01-01", 10, "-05:00")

\* the upstream records of the field specification: every form of created_at and
\* every form of an id that is not usable
FieldRecords ==
    { Rec("42", "u1", TextA, DateZ),
      Rec("42", "u1", TextA, DatePlus0),
      Rec("7", "u1", TextA, DatePlus2),
      Rec("7", "u1", TextA, DateMinus5),
      Rec("42", "u1", TextA, DateBad),
      Rec("42", "u1", TextA, DateNone),
      Rec("7", "u1", TextA, DateNumber),
      Rec(Absent, "u1", TextA, DateZ),
      Rec(None, "u1", TextA, DateZ),
      Rec("", "u1", TextA, DateZ),
      Rec(" ", "u1", TextA, DateZ),
      NotADict }

RECURSIVE SeqsUpTo(_, _)
SeqsUpTo(S, n) ==
    IF n = 0 THEN {<<>>}
    ELSE LET shorter == SeqsUpTo(S, n - 1)
         IN  shorter \cup {Append(s, x) : s \in {t \in shorter : Len(t) = n - 1}, x \in S}

\* the "data" arrays the upstream may answer with
Batches(records) == SeqsUpTo(records, MaxBatch)

----------------------------------------------------------------------------
(* Configuration and the upstream client (config.py, twitter_client.py) *)

\* TwitterClient.__init__: the instance, or the exception it raises
TwitterClientInit(token) ==
    IF ~token THEN "ConfigurationError" ELSE "client"

\* the module-level instance: constructed only when the token is set
GlobalTwitterClient(token) ==
    IF token THEN TwitterClientInit(token) ELSE None

MinResults == 10
MaxResults == 100
Max(a, b) == IF a >= b THEN a ELSE b
Min(a, b) == IF a <= b THEN a ELSE b

\* the clamp without its lower bound
ClampMaxResultsUpper(max_results) == Min(MaxResults, max_results)

\* params["max_results"] of the request
ClampMaxResults(max_results) == Max(MinResults, Min(MaxResults, max_results))

\* What session.get(...) ends with, once the adapter's retries are over
HttpOutcome(kind, data) == [kind |-> kind, data |-> data]
HttpOutcomes(records) ==
    {HttpOutcome("json_object", b) : b \in Batches(records)}
    \cup {HttpOutcome(k, <<>>) : k \in {"json_object_no_data", "json_list", "json_data_null",
                                         "invalid_json", "http_error", "retries_exhausted",
                                         "connection_error"}}

\* search_recent: the exception raised ("none" when it returns) and the "data" of
\* the returned object
SearchRecent(resp) ==
    CASE resp.kind \in {"http_error", "retries_exhausted", "connection_error"} ->
            [raise |-> "TwitterAPIError", data |-> <<>>]   \* RequestException
      [] resp.kind = "invalid_json" ->
            [raise |-> "TwitterAPIError", data |-> <<>>]   \* ValueError
      [] resp.kind = "json_list" ->
            [raise |-> "AttributeError", data |-> <<>>]    \* data.get on a list
      [] resp.kind = "json_data_null" ->
            [raise |-> "TypeError", data |-> <<>>]         \* len(None)
      [] resp.kind = "json_object_no_data" ->
            [raise |-> "none", data |-> <<>>]
      [] OTHER ->
            [raise |-> "none", data |-> resp.data]

\* Retry(total=3, status_forcelist=[429, 500, 502, 503, 504]) of the session's adapter
RetryTotal == 3
StatusForcelist == {429, 500, 502, 503, 504}

\* what one HTTP attempt meets: a response with a status, no connection, no answer
\* within the timeout
HttpStatuses == {200, 400, 401, 404, 429, 500, 502, 503, 504}
AttemptResult(kind, status) == [kind |-> kind, status |-> status]
AttemptResults ==
    {AttemptResult("status", st) : st \in HttpStatuses}
    \cup {AttemptResult("connection_error", 0), AttemptResult("timeout", 0)}

\* the adapter retries every failure
RetriesAnything(a) == a.kind # "status" \/ a.status # 200

\* the failures the adapter retries: connection and read errors of a GET, and the
\* statuses of the forcelist
Transient(a) ==
    \/ a.kind \in {"connection_error", "timeout"}
    \/ a.kind = "status" /\ a.status \in StatusForcelist

\* the bodies a 200 response may carry
HttpBodies(records) ==
    {o \in HttpOutcomes(records) :
        o.kind \in {"json_object", "json_object_no_data", "json_list", "json_data_null",
                    "invalid_json"}}

\* max_results values a caller of the client may pass
ClientMaxResults == {-1, 0, 1, 9, 10, 11, 100, 101, 1000}

----------------------------------------------------------------------------
(* The record store (models.py) and the per-record helpers (tweet_service.py) *)

IsoBodies == {"2025-01-01"}

\* datetime.fromisoformat on the string with the given body and offset suffixes
FromIsoFormat(d, suffixes) ==
    IF d.body \in IsoBodies /\ Len(suffixes) <= 1
    THEN [kind |-> "datetime", body |-> d.body, hour |-> d.hour,
          suffix |-> IF suffixes = <<>> THEN "" ELSE suffixes[1]]
    ELSE DateNone    \* ValueError, caught: None

HasPlus(d) == d.suffix \in {"+00:00", "+02:00"}

\* _parse_tweet_date: the exception raised ("none" when it returns) and the value
ParseTweetDate(d) ==
    CASE d.kind = "none" -> [raise |-> "none", value |-> DateNone]
      [] d.kind = "number" -> [raise |-> "AttributeError", value |-> DateNone]
      [] d.suffix = "Z" -> [raise |-> "none", value |-> FromIsoFormat(d, <<"+00:00">>)]
      [] HasPlus(d) -> [raise |-> "none", value |-> FromIsoFormat(d, <<d.suffix>>)]
      [] OTHER ->
            [raise |-> "none",
             value |-> FromIsoFormat(d, IF d.suffix = "" THEN <<"+00:00">>
                                        ELSE <<d.suffix, "+00:00">>)]

\* dict.get(key) and dict.get(key, default)
Get(rec, key) == IF rec[key] = Absent THEN None ELSE rec[key]
GetDefault(rec, key, default) == IF rec[key] = Absent THEN default ELSE rec[key]

\* the id check of _save_tweet_if_new dropped: any JSON object passes
UsableIdAnyDict(rec) == rec.dict

\* "if not tweet_id or not str(tweet_id).strip()"
UsableId(rec) == rec.dict /\ Get(rec, "id") \notin {None, "", " "}

\* models.Tweet(...) as built by _save_tweet_if_new, before the store assigns its id
NewTweet(rec, created_at) ==
    [id |-> 0,
     tweet_id |-> Get(rec, "id"),
     author_id |-> Get(rec, "author_id"),
     text |-> GetDefault(rec, "text", ""),
     created_at |-> created_at]

\* db.query(Tweet).filter(Tweet.tweet_id == ...).first() finds a row
Existing(st, tweet_id) == \E i \in 1..Len(st) : st[i].tweet_id = tweet_id

\* the table's constraints: tweet_id unique, text not null
UniqueViolation(st, row) == Existing(st, row.tweet_id)
\* the column text declared without nullable=False
NotNullViolationNever(row) == FALSE
NotNullViolation(row) == row.text = None

\* db.add + db.commit with the constraints dropped
DbCommitUnconstrained(st, row) ==
    [error |-> "none", store |-> Append(st, [row EXCEPT !.id = Len(st) + 1])]

\* db.add + db.commit done as INSERT OR REPLACE on tweet_id
DbCommitReplace(st, row) ==
    IF NotNullViolation(row)
    THEN [error |-> "IntegrityError", store |-> st]
    ELSE [error |-> "none",
          store |-> Append(SelectSeq(st, LAMBDA r : r.tweet_id # row.tweet_id),
                           [row EXCEPT !.id = Len(st) + 1])]

\* db.add + db.commit: the error raised ("none" when committed) and the table after it
DbCommit(st, row) ==
    IF UniqueViolation(st, row) \/ NotNullViolation(row)
    THEN [error |-> "IntegrityError", store |-> st]
    ELSE [error |-> "none", store |-> Append(st, [row EXCEPT !.id = Len(st) + 1])]

----------------------------------------------------------------------------
(* POST /tweets/collect and TweetService.collect_tweets *)

IdleCall ==
    [pc |-> "idle", via |-> "none", query |-> "", max_results |-> 0, sent_max |-> 0,
     tweets_data |-> <<>>, idx |-> 0, saved_tweets |-> <<>>, errors_count |-> 0,
     exc |-> "none", status |-> 0,
     search_raise |-> "none",  \* what search_recent raised
     attempts |-> 0,    \* HTTP attempts of a search followed attempt by attempt
     last_attempt |-> [kind |-> "none", status |-> 0],  \* what the last of them met
     searches |-> 0,    \* calls made to the upstream client
     db_ops |-> 0,      \* reads and writes of the store
     outcomes |-> <<>>] \* what became of each record of the batch, in order

\* CollectRequest: query min_length 1, max_results in 1..100
CollectRequestValid(q, m) == StrLen(q) >= 1 /\ m >= 1 /\ m <= 100

\* the status of the route's except clauses
RouteStatus(e) ==
    CASE e = "TwitterAPIError" -> 502
      [] e = "DatabaseError" -> 500
      [] OTHER -> 500

\* the call ends by raising e / by returning saved_tweets
Raised(cl, e) ==
    [cl EXCEPT !.pc = "done", !.exc = e,
               !.status = IF cl.via = "route" THEN RouteStatus(e) ELSE 0]

\* a call with nothing to return ends as a failed collection
ReturnedOrFailed(cl) ==
    IF cl.saved_tweets = <<>> THEN Raised(cl, "DatabaseError")
    ELSE [cl EXCEPT !.pc = "done", !.status = IF cl.via = "route" THEN 200 ELSE 0]

\* the call ends by returning saved_tweets
Returned(cl) ==
    [cl EXCEPT !.pc = "done", !.status = IF cl.via = "route" THEN 200 ELSE 0]

\* the argument checks of collect_tweets skipped
ValidateArgsNone(q, m) == "ok"

\* the argument checks at the top of collect_tweets
ValidateArgs(q, m) ==
    IF q = "" \/ Strip(q) = "" THEN "ValueError"
    ELSE IF m <= 0 THEN "ValueError"
    ELSE "ok"

\* the client check of collect_tweets skipped
ClientCheckNone(client) == "ok"

\* "if not twitter_client" of collect_tweets
ClientCheck(client) == IF client = None THEN "TwitterAPIError" ELSE "ok"

\* collect_tweets up to its try block
CollectEnter(c, q, m, via) ==
    LET cl == [IdleCall EXCEPT !.via = via, !.query = q, !.max_results = m]
    IN  call' = [call EXCEPT ![c] =
                    IF ValidateArgs(q, m) # "ok" THEN Raised(cl, ValidateArgs(q, m))
                    ELSE IF ClientCheck(twitter_client) # "ok"
                         THEN Raised(cl, ClientCheck(twitter_client))
                    ELSE [cl EXCEPT !.pc = "search"]]

\* the worker is free to take a request
Free(c) == call[c].pc \in {"idle", "done"}

\* the route: schema validation, then the service
RouteCollect(c, queries, sizes) ==
    /\ Free(c)
    /\ \E q \in queries, m \in sizes :
          IF ~CollectRequestValid(q, m)
          THEN call' = [call EXCEPT ![c] =
                           [IdleCall EXCEPT !.pc = "done", !.via = "route", !.query = q,
                                            !.max_results = m, !.status = 422]]
          ELSE CollectEnter(c, q, m, "route")
    /\ UNCHANGED <<bearer_token, twitter_client, store, faults, response>>

\* the service called directly, as the unit tests do
ServiceCollect(c, queries, sizes) ==
    /\ Free(c)
    /\ \E q \in queries, m \in sizes : CollectEnter(c, q, m, "service")
    /\ UNCHANGED <<bearer_token, twitter_client, store, faults, response>>

\* every exception of the try block wrapped, the upstream error too
CollectExceptWrap(e) == "DatabaseError"

\* what collect_tweets does with an exception of its try block
CollectExcept(e) == IF e = "TwitterAPIError" THEN "TwitterAPIError" ELSE "DatabaseError"

\* twitter_client.search_recent(...) and what follows it up to the loop
Search(c, outcomes) ==
    /\ call[c].pc = "search"
    /\ \E resp \in outcomes :
          LET r  == SearchRecent(resp)
              cl == [call[c] EXCEPT !.searches = @ + 1, !.search_raise = r.raise,
                                    !.sent_max = ClampMaxResults(call[c].max_results)]
          IN  call' = [call EXCEPT ![c] =
                          IF r.raise # "none" THEN Raised(cl, CollectExcept(r.raise))
                          ELSE IF r.data = <<>> THEN Returned(cl)
                          ELSE [cl EXCEPT !.pc = "lookup", !.tweets_data = r.data, !.idx = 1]]
    /\ UNCHANGED <<bearer_token, twitter_client, store, faults, response>>

\* the loop goes on to the next record, or the call returns
NextRecord(cl, outcome) ==
    LET done == [cl EXCEPT !.outcomes = Append(@, outcome)]
    IN  IF cl.idx = Len(cl.tweets_data) THEN Returned(done)
        ELSE [done EXCEPT !.pc = "lookup", !.idx = @ + 1]

\* the lookup finds the row and rewrites it with the data of the record
LookupHitUpdate(st, rec) ==
    [i \in 1..Len(st) |->
        IF st[i].tweet_id = Get(rec, "id")
        THEN [st[i] EXCEPT !.author_id = Get(rec, "author_id"),
                           !.text = GetDefault(rec, "text", "")]
        ELSE st[i]]

\* "if existing: return None": the table after the lookup found the row
LookupHit(st, rec) == st

\* the IntegrityError of the commit ends the call
SaveIntegrityErrorAbort(cl) ==
    Raised([cl EXCEPT !.outcomes = Append(@, "integrity")], "DatabaseError")

\* "except IntegrityError": rollback, None returned, the loop goes on
SaveIntegrityError(cl) == NextRecord(cl, "integrity")

\* any other exception of add, commit or refresh ends the call
SaveOtherErrorAbort(cl, outcome) ==
    Raised([cl EXCEPT !.outcomes = Append(@, outcome)], "DatabaseError")

\* "except Exception" of add, commit, refresh: rollback, None returned, the loop goes on
SaveOtherError(cl, outcome) == NextRecord(cl, outcome)

\* "except Exception" of the loop: counted, logged, the loop goes on
LoopExcept(cl) == NextRecord([cl EXCEPT !.errors_count = @ + 1], "exception")

\* _save_tweet_if_new up to the existence lookup
SaveTweetLookup(c) ==
    LET cl  == call[c]
        rec == cl.tweets_data[cl.idx]
        io  == [cl EXCEPT !.db_ops = @ + 1]
    IN  /\ cl.pc = "lookup"
        /\ IF ~rec.dict
           THEN call' = [call EXCEPT ![c] = NextRecord(cl, "not_dict")]
                /\ UNCHANGED <<store, faults>>
           ELSE IF ~UsableId(rec)
           THEN call' = [call EXCEPT ![c] = NextRecord(cl, "no_id")]
                /\ UNCHANGED <<store, faults>>
           ELSE \/ /\ Existing(store, Get(rec, "id"))
                   /\ store' = LookupHit(store, rec)
                   /\ call' = [call EXCEPT ![c] = NextRecord(io, "exists")]
                   /\ UNCHANGED faults
                \/ /\ ~Existing(store, Get(rec, "id"))
                   /\ call' = [call EXCEPT ![c] = [io EXCEPT !.pc = "commit"]]
                   /\ UNCHANGED <<store, faults>>
                \/ /\ faults < MaxFaults      \* the query raises: logged, None returned
                   /\ faults' = faults + 1
                   /\ call' = [call EXCEPT ![c] = NextRecord(io, "lookup_failed")]
                   /\ UNCHANGED store
        /\ UNCHANGED <<bearer_token, twitter_client, response>>

\* _save_tweet_if_new from the date parsing on: add, commit, refresh
SaveTweetCommit(c) ==
    LET cl     == call[c]
        rec    == cl.tweets_data[cl.idx]
        parsed == ParseTweetDate(rec.created_at)
        row    == NewTweet(rec, parsed.value)
        res    == DbCommit(store, row)
        io     == [cl EXCEPT !.db_ops = @ + 1]
    IN  /\ cl.pc = "commit"
        /\ IF parsed.raise # "none"
           THEN \* the exception leaves _save_tweet_if_new and is caught by the loop
                /\ call' = [call EXCEPT ![c] = LoopExcept(cl)]
                /\ UNCHANGED <<store, faults>>
           ELSE \/ /\ res.error # "none"      \* IntegrityError: rollback, None
                   /\ call' = [call EXCEPT ![c] = SaveIntegrityError(io)]
                   /\ UNCHANGED <<store, faults>>
                \/ /\ res.error = "none"      \* committed and refreshed
                   /\ store' = res.store
                   /\ call' = [call EXCEPT ![c] =
                                  NextRecord([io EXCEPT !.saved_tweets =
                                                 Append(@, res.store[Len(res.store)])],
                                             "saved")]
                   /\ UNCHANGED faults
                \/ /\ res.error = "none"      \* committed, then the refresh raises
                   /\ faults < MaxFaults
                   /\ faults' = faults + 1
                   /\ store' = res.store
                   /\ call' = [call EXCEPT ![c] = SaveOtherError(io, "refresh_failed")]
                \/ /\ faults < MaxFaults      \* the commit raises: rollback, None
                   /\ faults' = faults + 1
                   /\ call' = [call EXCEPT ![c] = SaveOtherError(io, "commit_failed")]
                   /\ UNCHANGED store
        /\ UNCHANGED <<bearer_token, twitter_client, response>>

----------------------------------------------------------------------------
(* TwitterClient.search_recent called directly and followed attempt by attempt *)

\* search_recent up to session.get: the parameters of the request are built
ClientSearch(c, sizes) ==
    /\ Free(c)
    /\ twitter_client # None
    /\ \E m \in sizes :
          call' = [call EXCEPT ![c] =
                      [IdleCall EXCEPT !.pc = "http", !.via = "client", !.query = "python",
                                       !.max_results = m, !.searches = 1,
                                       !.sent_max = ClampMaxResults(m)]]
    /\ UNCHANGED <<bearer_token, twitter_client, store, faults, response>>

\* search_recent ends with what the last attempt gave
ClientReturn(cl, resp) ==
    LET r == SearchRecent(resp)
    IN  [cl EXCEPT !.pc = "done", !.search_raise = r.raise, !.exc = r.raise,
                   !.tweets_data = r.data]

\* one HTTP attempt of session.get: the adapter retries it, gives up, or hands the
\* response to raise_for_status and response.json
HttpAttempt(c, records) ==
    /\ call[c].pc = "http"
    /\ \E a \in AttemptResults :
          LET cl == [call[c] EXCEPT !.attempts = @ + 1, !.last_attempt = a]
          IN  IF Transient(a)
              THEN call' = [call EXCEPT ![c] =
                      IF call[c].attempts < RetryTotal THEN cl
                      ELSE IF a.kind = "status"
                           THEN ClientReturn(cl, HttpOutcome("retries_exhausted", <<>>))
                           ELSE ClientReturn(cl, HttpOutcome("connection_error", <<>>))]
              ELSE IF a.status # 200
              THEN call' = [call EXCEPT ![c] =
                               ClientReturn(cl, HttpOutcome("http_error", <<>>))]
              ELSE \E resp \in HttpBodies(records) :
                      call' = [call EXCEPT ![c] = ClientReturn(cl, resp)]
    /\ UNCHANGED <<bearer_token, twitter_client, store, faults, response>>

----------------------------------------------------------------------------
(* The read-only entry points: GET /tweets/, /analytics/hashtags, /analytics/volume_by_hour *)

\* created_at as the ORDER BY compares it: NULL below every timestamp
DayNumber(body) == CASE body = "2025-01-01" -> 1 [] OTHER -> 0
CreatedKey(row) ==
    IF row.created_at.kind = "none" THEN -1
    ELSE DayNumber(row.created_at.body) * 24 + row.created_at.hour

\* the rows in any order the ORDER BY created_at DESC allows (ties in any order)
OrderedDesc(st) ==
    { [i \in 1..Len(st) |-> st[p[i]]] : p \in
        { q \in Permutations(1..Len(st)) :
            \A i, j \in 1..Len(st) : i < j => CreatedKey(st[q[i]]) >= CreatedKey(st[q[j]]) } }

Take(seq, n) == SubSeq(seq, 1, Min(n, Len(seq)))

\* the limit handed to the service as the caller sent it
ClampLimitNot(limit) == limit

\* limit = max(1, min(1000, limit)) of the listing route
ClampLimit(limit) == Max(1, Min(1000, limit))

\* TweetService.get_tweets behind the route's clamp of limit
ListTweets(limits) ==
    /\ \E limit \in limits :
          LET clamped == ClampLimit(limit)
          IN  \/ /\ \E rows \in OrderedDesc(store) :
                        response' =
                            IF clamped <= 0      \* get_tweets raises ValueError: 500
                            THEN [op |-> "list", limit |-> limit, status |-> 500, body |-> <<>>]
                            ELSE [op |-> "list", limit |-> limit, status |-> 200,
                                  body |-> Take(rows, clamped)]
                 /\ UNCHANGED faults
              \/ /\ faults < MaxFaults      \* the query raises: DatabaseError
                 /\ faults' = faults + 1
                 /\ response' = [op |-> "list", limit |-> limit, status |-> 500, body |-> <<>>]
    /\ UNCHANGED <<bearer_token, twitter_client, store, call>>

\* HASHTAG_PATTERN.findall(text) on the texts of the model
FindAllHashtags(text) ==
    CASE text = TextA -> <<"#FastAPI">>
      [] text = TextB -> <<"#fastapi", "#py">>
      [] text = TextC -> <<"#py", "#Py", "#ai">>
      [] OTHER -> <<>>

\* the hashtags kept as they are written
LowerNot(tag) == tag

\* str.lower() on the hashtags of the model
Lower(tag) == CASE tag = "#FastAPI" -> "#fastapi" [] tag = "#Py" -> "#py" [] OTHER -> tag

LowerAll(tags) == [i \in 1..Len(tags) |-> Lower(tags[i])]

\* Counter.update counting a key once however often the keys hold it
RECURSIVE CounterUpdateDistinct(_, _)
CounterUpdateDistinct(counter, keys) ==
    IF keys = <<>> THEN counter
    ELSE LET k == Head(keys)
             at == {i \in 1..Len(counter) : counter[i].key = k}
         IN  CounterUpdateDistinct(
                 IF at = {} THEN Append(counter, [key |-> k, count |-> 1])
                 ELSE [i \in 1..Len(counter) |->
                          IF i \in at THEN [counter[i] EXCEPT !.count = @ + 1] ELSE counter[i]],
                 SelectSeq(Tail(keys), LAMBDA x : x # k))

\* Counter.update over the keys, one after the other: the counter as the sequence of
\* its (key, count) items in insertion order
RECURSIVE CounterUpdate(_, _)
CounterUpdate(counter, keys) ==
    IF keys = <<>> THEN counter
    ELSE LET k == Head(keys)
             at == {i \in 1..Len(counter) : counter[i].key = k}
         IN  CounterUpdate(
                 IF at = {} THEN Append(counter, [key |-> k, count |-> 1])
                 ELSE [i \in 1..Len(counter) |->
                          IF i \in at THEN [counter[i] EXCEPT !.count = @ + 1] ELSE counter[i]],
                 Tail(keys))

\* the hashtag counter after the loop over the texts
RECURSIVE HashtagCounter(_, _)
HashtagCounter(counter, texts) ==
    IF texts = <<>> THEN counter
    ELSE HashtagCounter(CounterUpdate(counter, LowerAll(FindAllHashtags(Head(texts)))),
                        Tail(texts))

\* most_common(n) with equal counts in reverse insertion order
RECURSIVE MostCommonLastFirst(_, _)
MostCommonLastFirst(counter, n) ==
    IF n <= 0 \/ counter = <<>> THEN <<>>
    ELSE LET best == CHOOSE i \in 1..Len(counter) :
                        /\ \A j \in 1..Len(counter) : counter[j].count <= counter[i].count
                        /\ \A j \in (i + 1)..Len(counter) : counter[j].count < counter[i].count
             rest == [j \in 1..(Len(counter) - 1) |->
                         IF j < best THEN counter[j] ELSE counter[j + 1]]
         IN  <<counter[best]>> \o MostCommonLastFirst(rest, n - 1)

\* Counter.most_common(n): by count, descending, equal counts in insertion order
RECURSIVE MostCommon(_, _)
MostCommon(counter, n) ==
    IF n <= 0 \/ counter = <<>> THEN <<>>
    ELSE LET best == CHOOSE i \in 1..Len(counter) :
                        /\ \A j \in 1..Len(counter) : counter[j].count <= counter[i].count
                        /\ \A j \in 1..(i - 1) : counter[j].count < counter[i].count
             rest == [j \in 1..(Len(counter) - 1) |->
                         IF j < best THEN counter[j] ELSE counter[j + 1]]
         IN  <<counter[best]>> \o MostCommon(rest, n - 1)

\* what AnalyticsService.get_top_hashtags returns when its query succeeds
GetTopHashtags(st, limit) ==
    LET rows  == SelectSeq(st, LAMBDA r : r.text # None)
        texts == [i \in 1..Len(rows) |-> rows[i].text]
    IN  MostCommon(HashtagCounter(<<>>, texts), limit)

\* the failure of the query leaves the service as an exception
ReportExceptRaise(value, failed) ==
    [raise |-> failed, value |-> IF failed THEN <<>> ELSE value]

\* try / except Exception of the two report services: a failure is logged and the
\* empty list returned, nothing is raised
ReportExcept(value, failed) ==
    [raise |-> FALSE, value |-> IF failed THEN <<>> ELSE value]

\* the report routes: the result of the service under its name, 500 when the
\* service raises
ReportRoute(op, limit, result) ==
    [op |-> op, limit |-> limit, status |-> IF result.raise THEN 500 ELSE 200,
     body |-> result.value]

\* AnalyticsService.get_top_hashtags called directly, as the unit tests do
ServiceTopHashtags(limits) ==
    /\ \E limit \in limits :
          \/ /\ response' = [op |-> "get_top_hashtags", limit |-> limit, status |-> 0,
                              body |-> ReportExcept(GetTopHashtags(store, limit), FALSE).value]
             /\ UNCHANGED faults
          \/ /\ faults < MaxFaults      \* the query raises: logged, [] returned
             /\ faults' = faults + 1
             /\ response' = [op |-> "get_top_hashtags", limit |-> limit, status |-> 0,
                              body |-> ReportExcept(<<>>, TRUE).value]
    /\ UNCHANGED <<bearer_token, twitter_client, store, call>>

\* AnalyticsService.get_top_hashtags behind the route's clamp of limit
TopHashtags(limits) ==
    /\ \E limit \in limits :
          LET clamped == Max(1, Min(100, limit))
          IN  \/ /\ response' = ReportRoute("hashtags", limit,
                                             ReportExcept(GetTopHashtags(store, clamped), FALSE))
                 /\ UNCHANGED faults
              \/ /\ faults < MaxFaults      \* the query raises: logged, [] returned
                 /\ faults' = faults + 1
                 /\ response' = ReportRoute("hashtags", limit, ReportExcept(<<>>, TRUE))
    /\ UNCHANGED <<bearer_token, twitter_client, store, call>>

\* strings as the sequences of their character codes: "%Y-%m-%d" of the days of
\* the model, and the key "unknown"
DayChars(body) ==
    CASE body = "2025-01-01" -> <<50, 48, 50, 53, 45, 48, 49, 45, 48, 49>>
      [] OTHER -> <<50, 48, 50, 52, 45, 49, 50, 45, 51, 49>>     \* "2024-12-31"
Unknown == <<117, 110, 107, 110, 111, 119, 110>>

\* created_at.strftime("%Y-%m-%dT%H"): the day, "T", the hour on two digits
HourKey(created_at) ==
    DayChars(created_at.body) \o <<84, 48 + (created_at.hour \div 10), 48 + (created_at.hour % 10)>>

\* a < b on strings: by the first character that differs, a prefix first
KeyLess(a, b) ==
    \/ \E i \in 1..Min(Len(a), Len(b)) :
          /\ a[i] < b[i]
          /\ \A j \in 1..(i - 1) : a[j] = b[j]
    \/ /\ Len(a) < Len(b)
       /\ \A j \in 1..Len(a) : a[j] = b[j]

\* the items in the insertion order of the counter: no sort
SortedItemsNot(counter) == counter

\* sorted(counter.items())
RECURSIVE SortedItems(_)
SortedItems(counter) ==
    IF counter = <<>> THEN <<>>
    ELSE LET least == CHOOSE i \in 1..Len(counter) :
                         \A j \in 1..Len(counter) : j # i => KeyLess(counter[i].key, counter[j].key)
             rest  == [j \in 1..(Len(counter) - 1) |->
                          IF j < least THEN counter[j] ELSE counter[j + 1]]
         IN  <<counter[least]>> \o SortedItems(rest)

\* AnalyticsService.get_volume_by_hour
VolumeByHour ==
    /\ LET rows == SelectSeq(store, LAMBDA r : r.created_at.kind # "none")
           keys == [i \in 1..Len(rows) |-> HourKey(rows[i].created_at)]
       IN  \/ /\ response' = ReportRoute("volume", 0,
                                          ReportExcept(SortedItems(CounterUpdate(<<>>, keys)), FALSE))
              /\ UNCHANGED faults
           \/ /\ faults < MaxFaults      \* the query raises: logged, [] returned
              /\ faults' = faults + 1
              /\ response' = ReportRoute("volume", 0, ReportExcept(<<>>, TRUE))
    /\ UNCHANGED <<bearer_token, twitter_client, store, call>>

----------------------------------------------------------------------------

Init ==
    /\ bearer_token \in BOOLEAN
    /\ twitter_client = GlobalTwitterClient(bearer_token)
    /\ store = <<>>
    /\ faults = 0
    /\ call = [c \in Calls |-> IdleCall]
    /\ response = [op |-> "none", limit |-> 0, status |-> 0, body |-> <<>>]

\* the longest stored corpus of the report specification
MaxRows == 3

\* texts of the stored rows of a corpus
CorpusTexts == {TextA, TextB, TextC, ""}

\* limits the hashtag report is called with
ServiceLimits == {0, 1, 2, 5}

\* the stored corpora: rows inserted one after the other, each with its own post_id
PostIds == <<"1", "2", "3", "4">>
Corpora ==
    {[i \in 1..Len(texts) |->
         [id |-> i, tweet_id |-> PostIds[i], author_id |-> "u1", text |-> texts[i],
          created_at |-> FromIsoFormat(DateZ, <<"+00:00">>)]] :
       texts \in SeqsUpTo(CorpusTexts, MaxRows)}

\* the service over a store that already holds a corpus
InitCorpus ==
    /\ bearer_token \in BOOLEAN
    /\ twitter_client = GlobalTwitterClient(bearer_token)
    /\ store \in Corpora
    /\ faults = 0
    /\ call = [c \in Calls |-> IdleCall]
    /\ response = [op |-> "none", limit |-> 0, status |-> 0, body |-> <<>>]

\* a stored timestamp
Datetime(body, hour) == [kind |-> "datetime", body |-> body, hour |-> hour, suffix |-> "+00:00"]

\* created_at of the stored rows of a corpus: null, or one of three hours
CorpusDates ==
    {DateNone, Datetime("2024-12-31", 23), Datetime("2025-01-01", 9), Datetime("2025-01-01", 10)}

\* limit values a caller of the listing or of the hashtag report may send
LimitInputs == {0, 2, 2000}

\* the stored corpora of the report specification
ReportCorpora ==
    {[i \in 1..Len(rows) |->
         [id |-> i, tweet_id |-> PostIds[i], author_id |-> "u1", text |-> rows[i][1],
          created_at |-> rows[i][2]]] :
       rows \in SeqsUpTo({TextA, TextB} \X CorpusDates, MaxRows)}

InitReports ==
    /\ bearer_token \in BOOLEAN
    /\ twitter_client = GlobalTwitterClient(bearer_token)
    /\ store \in ReportCorpora
    /\ faults = 0
    /\ call = [c \in Calls |-> IdleCall]
    /\ response = [op |-> "none", limit |-> 0, status |-> 0, body |-> <<>>]

\* The listing and the two reports asked through their routes over a stored corpus
NextReports ==
    \/ ListTweets(LimitInputs)
    \/ TopHashtags(LimitInputs)
    \/ VolumeByHour

SpecReports == InitReports /\ [][NextReports]_vars

\* The hashtag report asked again and again over a stored corpus
NextHashtags ==
    \/ ServiceTopHashtags(ServiceLimits)

SpecHashtags == InitCorpus /\ [][NextHashtags]_vars

\* Several worker processes on one store, each handling one request after the
\* other; the callers send valid requests
Next ==
    \/ \E c \in Calls : RouteCollect(c, {"python"}, {10})
    \/ \E c \in Calls : Search(c, HttpOutcomes(RaceRecords))
    \/ \E c \in Calls : SaveTweetLookup(c)
    \/ \E c \in Calls : SaveTweetCommit(c)

Spec == Init /\ [][Next]_vars

\* The same worker processes together with the read-only entry points: every
\* operation of the service that reaches the store; the readers ask for two rows
NextStore ==
    \/ \E c \in Calls : RouteCollect(c, {"python"}, {10})
    \/ \E c \in Calls : Search(c, HttpOutcomes(RaceRecords))
    \/ \E c \in Calls : SaveTweetLookup(c)
    \/ \E c \in Calls : SaveTweetCommit(c)
    \/ ListTweets({2})
    \/ TopHashtags({2})
    \/ VolumeByHour

SpecStore == Init /\ [][NextStore]_vars

\* One worker process handling one request after the other (the route is a
\* coroutine that never awaits), through the route or straight into the service,
\* with any input and any upstream answer
NextSerial ==
    \/ RouteCollect(1, Queries, MaxResultsInputs)
    \/ ServiceCollect(1, Queries, MaxResultsInputs)
    \/ Search(1, HttpOutcomes(UpstreamRecords))
    \/ SaveTweetLookup(1)
    \/ SaveTweetCommit(1)

SpecSerial == Init /\ [][NextSerial]_vars

\* One worker process and valid requests, with upstream records that differ in
\* their id and their created_at
NextFields ==
    \/ RouteCollect(1, {"python"}, {10})
    \/ Search(1, HttpOutcomes(FieldRecords))
    \/ SaveTweetLookup(1)
    \/ SaveTweetCommit(1)

SpecFields == Init /\ [][NextFields]_vars

\* The upstream client called directly, one call after the other, each search
\* followed attempt by attempt
NextClient ==
    \/ ClientSearch(1, ClientMaxResults)
    \/ HttpAttempt(1, RaceRecords)

SpecClient == Init /\ [][NextClient]_vars

\* every search that was started gets its next attempt
SpecClientFair == SpecClient /\ WF_vars(HttpAttempt(1, RaceRecords))

----------------------------------------------------------------------------
(* Properties *)

Done(c) == call[c].pc = "done"
RecAt(c, i) == call[c].tweets_data[i]
RowsWith(tweet_id) == {i \in 1..Len(store) : store[i].tweet_id = tweet_id}
\* the record was inserted by the call (whether or not the refresh then failed)
Committed(outcome) == outcome \in {"saved", "refresh_failed"}
\* the record was skipped because a step of _save_tweet_if_new failed
Failed(outcome) ==
    outcome \in {"lookup_failed", "integrity", "commit_failed", "refresh_failed", "exception"}
\* collect_tweets was called for the request (the schema did not reject it)
ServiceCalled(c) ==
    \/ call[c].via = "service"
    \/ call[c].via = "route" /\ CollectRequestValid(call[c].query, call[c].max_results)

\* C1: in every reachable state, whatever the sequence or interleaving of collect
\* calls, the store holds at most one row per post_id.
C1_UniquePostId ==
    \A i, j \in 1..Len(store) : i # j => store[i].tweet_id # store[j].tweet_id

\* two calls got the same upstream data and raced on one of its posts
C1_Witness ==
    \E c, d \in Calls :
        /\ c # d /\ Done(c) /\ Done(d)
        /\ call[c].tweets_data = call[d].tweets_data
        /\ \E i \in 1..Len(call[c].outcomes) : call[c].outcomes[i] = "saved"
        /\ \E i \in 1..Len(call[d].outcomes) : call[d].outcomes[i] = "integrity"

\* the call passed the lookup of its record and another call has committed the same
\* post_id since
LostRace(c) ==
    /\ call[c].pc = "commit"
    /\ Existing(store, Get(RecAt(c, call[c].idx), "id"))

\* C2: a call that passed the lookup for a post_id another call commits first finds
\* exactly one row committed; its own commit leaves the store as it is, raises
\* nothing to its caller, returns no record for it, and the call goes on with its
\* next record (or returns) as after a duplicate found by the lookup.
C2_RaceLoserSkips ==
    [][\A c \in Calls :
          LostRace(c) /\ call'[c] # call[c] =>
             /\ Cardinality(RowsWith(Get(RecAt(c, call[c].idx), "id"))) = 1
             /\ store' = store
             /\ call'[c].exc = "none"
             /\ call'[c].saved_tweets = call[c].saved_tweets
             /\ \/ call'[c].outcomes = Append(call[c].outcomes, "integrity")
                \/ /\ faults' = faults + 1
                   /\ call'[c].outcomes = Append(call[c].outcomes, "commit_failed")
             /\ call'[c] = [NextRecord([call[c] EXCEPT !.db_ops = @ + 1], "exists")
                               EXCEPT !.outcomes = call'[c].outcomes]
      ]_vars

\* a call lost the race on its first record and went on to its second
C2_Witness ==
    \E c \in Calls :
        /\ Done(c) /\ call[c].exc = "none" /\ call[c].status = 200
        /\ Len(call[c].outcomes) = 2
        /\ call[c].outcomes[1] = "integrity"
        /\ call[c].outcomes[2] = "saved"

\* C3: when a step of persisting one record fails, the call raises nothing, skips
\* that record only and handles every later record of the batch: a later record
\* with a usable id that did not fail itself is in the store, and the call returns
\* normally after the last record.
C3_SkipOnlyFailed ==
    \A c \in Calls : \A i \in 1..Len(call[c].outcomes) :
        Failed(call[c].outcomes[i]) =>
            /\ call[c].exc = "none"
            /\ Done(c) =>
                  /\ Len(call[c].outcomes) = Len(call[c].tweets_data)
                  /\ call[c].via = "route" => call[c].status = 200
            /\ ~Done(c) =>
                  /\ call[c].pc \in {"lookup", "commit"}
                  /\ call[c].idx = Len(call[c].outcomes) + 1
            /\ \A j \in (i + 1)..Len(call[c].outcomes) :
                  UsableId(RecAt(c, j)) /\ ~Failed(call[c].outcomes[j]) =>
                      Existing(store, Get(RecAt(c, j), "id"))

\* the first record of a batch failed and the second was inserted
C3_Witness ==
    \E c \in Calls :
        /\ Done(c) /\ call[c].exc = "none"
        /\ Len(call[c].outcomes) = 2
        /\ call[c].outcomes[1] \in {"integrity", "commit_failed"}
        /\ call[c].outcomes[2] = "saved"
        /\ call[c].saved_tweets = <<store[Len(store)]>>

\* C4: a call that found the store unreachable at a lookup or a commit stops there
\* and fails with DatabaseError (status 500 through the route).
C4_StorageFailureAborts ==
    \A c \in Calls :
        (\E i \in 1..Len(call[c].outcomes) :
            call[c].outcomes[i] \in {"lookup_failed", "commit_failed"}) =>
                /\ Done(c)
                /\ call[c].exc = "DatabaseError"
                /\ call[c].via = "route" => call[c].status = 500

\* C5: when the upstream search fails, the call fails with TwitterAPIError, the
\* route answers 502 and the call adds no record.
C5_UpstreamFailurePropagates ==
    \A c \in Calls :
        call[c].search_raise # "none" =>
            /\ call[c].exc = "TwitterAPIError"
            /\ call[c].via = "route" => call[c].status = 502
            /\ call[c].outcomes = <<>>

\* C6: the route answers 422 to every request with an empty query, a
\* whitespace-only query or max_results outside 1..100.
C6_ValidationIs422 ==
    \A c \in Calls :
        /\ call[c].via = "route"
        /\ \/ call[c].query = ""
           \/ Strip(call[c].query) = ""
           \/ call[c].max_results < 1
           \/ call[c].max_results > 100
        => call[c].status = 422

\* C7: collect_tweets called with a blank query or with max_results <= 0 fails
\* with ValueError without having called the upstream client or touched the store.
C7_BadInputFailsFast ==
    \A c \in Calls :
        /\ ServiceCalled(c)
        /\ Strip(call[c].query) = "" \/ call[c].max_results <= 0
        => /\ Done(c)
           /\ call[c].exc = "ValueError"
           /\ call[c].searches = 0
           /\ call[c].db_ops = 0
           /\ call[c].outcomes = <<>>

\* a call with a whitespace-only query failed, after an earlier call had stored a post
C7_Witness ==
    \E c \in Calls :
        /\ call[c].via = "service" /\ call[c].query = " " /\ call[c].exc = "ValueError"
        /\ Done(c) /\ Len(store) > 0

\* C8 as stated: while the credential is absent no collect call fails at call time
\* for want of the client.
C8_NeverFailsAtCallTime ==
    \A c \in Calls : ~(~bearer_token /\ call[c].exc = "TwitterAPIError")

\* C8 as amended: the module-level client is constructed exactly when the
\* credential is set, so no ConfigurationError is raised; while the credential is
\* absent the client is None and every collect call with valid arguments fails at
\* call time with TwitterAPIError (502 through the route) without having called the
\* upstream or touched the store.
C8_FailsAtCallTime ==
    /\ twitter_client = IF bearer_token THEN "client" ELSE None
    /\ \A c \in Calls :
          /\ ~bearer_token
          /\ ServiceCalled(c)
          /\ ValidateArgs(call[c].query, call[c].max_results) = "ok"
          => /\ Done(c)
             /\ call[c].exc = "TwitterAPIError"
             /\ call[c].via = "route" => call[c].status = 502
             /\ call[c].searches = 0
             /\ call[c].db_ops = 0

\* a valid request was answered 502 because the credential is absent
C8_Witness ==
    \E c \in Calls :
        /\ ~bearer_token /\ twitter_client = None
        /\ call[c].via = "route" /\ call[c].query = "python" /\ call[c].max_results = 10
        /\ call[c].exc = "TwitterAPIError" /\ call[c].status = 502

\* positions i < j of the batch of c that hold the same usable id and different texts
SameIdPairs(c) ==
    {p \in (1..Len(call[c].tweets_data)) \X (1..Len(call[c].tweets_data)) :
        /\ p[1] < p[2]
        /\ UsableId(RecAt(c, p[1]))
        /\ Get(RecAt(c, p[1]), "id") = Get(RecAt(c, p[2]), "id")
        /\ RecAt(c, p[1]).text # RecAt(c, p[2]).text}

\* C9 as stated: after a call whose batch holds two records with the same post_id
\* and different text, exactly one row with that post_id is stored and it holds the
\* text of the first of the two. (Taken over the runs without any storage fault: it
\* fails there already, when the post_id was stored by an earlier call.)
C9_FirstTextStored ==
    \A c \in Calls : \A p \in SameIdPairs(c) :
        Done(c) /\ faults = 0 =>
            /\ Cardinality(RowsWith(Get(RecAt(c, p[1]), "id"))) = 1
            /\ \A r \in RowsWith(Get(RecAt(c, p[1]), "id")) :
                  store[r].text = GetDefault(RecAt(c, p[1]), "text", "")

OutcomeAt(c, i) == IF i <= Len(call[c].outcomes) THEN call[c].outcomes[i] ELSE "pending"

\* C9 as amended: the records are handled in upstream order and a call never
\* inserts both of two records with the same post_id; when it inserts the first
\* (the post_id was not stored and the lookup and the commit of the first succeed),
\* exactly one row with that post_id is stored, it holds the first one's text, and
\* the second is skipped; the second is inserted only when the first was skipped
\* by a failure of its lookup, its date parsing or its commit, or was rejected by
\* the store (a null text).
C9_FirstCommittedWins ==
    \A c \in Calls :
        /\ Len(call[c].outcomes) \in {call[c].idx - 1, call[c].idx}
        /\ \A p \in SameIdPairs(c) :
              /\ ~(Committed(OutcomeAt(c, p[1])) /\ Committed(OutcomeAt(c, p[2])))
              /\ Committed(OutcomeAt(c, p[1])) =>
                    /\ Cardinality(RowsWith(Get(RecAt(c, p[1]), "id"))) = 1
                    /\ \A r \in RowsWith(Get(RecAt(c, p[1]), "id")) :
                          store[r].text = GetDefault(RecAt(c, p[1]), "text", "")
                    /\ OutcomeAt(c, p[2]) \in {"pending", "exists", "lookup_failed"}
              /\ Committed(OutcomeAt(c, p[2])) =>
                    OutcomeAt(c, p[1]) \in {"lookup_failed", "exception", "commit_failed",
                                            "integrity"}

\* a call inserted the first of two records with the same post_id and skipped the
\* second as a duplicate
C9_Witness ==
    \E c \in Calls : \E p \in SameIdPairs(c) :
        /\ Done(c)
        /\ OutcomeAt(c, p[1]) = "saved"
        /\ OutcomeAt(c, p[2]) = "exists"
        /\ \E r \in RowsWith(Get(RecAt(c, p[1]), "id")) : store[r].text = RecAt(c, p[1]).text

\* C10: no step changes or removes a stored row: every row of the store is, after
\* any step of a collect call, of the listing or of a report, still there, at the
\* same place, with the same tweet_id, author_id, text and created_at.
C10_AppendOnly ==
    [][/\ Len(store') >= Len(store)
       /\ \A i \in 1..Len(store) : store'[i] = store[i]]_vars

\* a stored post was offered again with different data and reports were answered
C10_Witness ==
    \E c \in Calls : \E i \in 1..Len(call[c].outcomes) :
        /\ call[c].outcomes[i] \in {"exists", "integrity"}
        /\ \E r \in RowsWith(Get(RecAt(c, i), "id")) : store[r].text # RecAt(c, i).text
        /\ response.op # "none"

\* the post_ids of the records the call inserted, in the order of the batch
CommittedIds(c) ==
    LET at == SelectSeq([i \in 1..Len(call[c].outcomes) |-> i],
                        LAMBDA i : Committed(call[c].outcomes[i]))
    IN  [k \in 1..Len(at) |-> Get(RecAt(c, at[k]), "id")]

\* the post_ids of the list the call returns
ReturnedIds(c) == [k \in 1..Len(call[c].saved_tweets) |-> call[c].saved_tweets[k].tweet_id]

\* C11: the list a call returns holds exactly the records the call committed, in
\* the order of the upstream response: every returned record is a row of the store
\* and every record the call committed is in the list.
C11_ReturnsCommitted ==
    \A c \in Calls :
        Done(c) /\ call[c].exc = "none" =>
            /\ ReturnedIds(c) = CommittedIds(c)
            /\ \A k \in 1..Len(call[c].saved_tweets) :
                  \E r \in 1..Len(store) : store[r] = call[c].saved_tweets[k]

\* the call returns normally and its list is empty
ReturnsEmpty(cl) ==
    /\ cl.pc = "done" /\ cl.exc = "none" /\ cl.saved_tweets = <<>>
    /\ cl.via = "route" => cl.status = 200

\* C12: a call whose search returns no record returns the empty list without
\* touching the store; the step that handles a record whose post_id is stored
\* leaves the store as it is, attempts no insert and returns nothing for it; a
\* call all of whose records were found stored returns the empty list.
C12_NothingNewNothingStored ==
    [][\A c \in Calls :
          /\ call[c].pc = "search" /\ call'[c].search_raise = "none"
             /\ call'[c].tweets_data = <<>> /\ call'[c] # call[c]
             => /\ ReturnsEmpty(call'[c])
                /\ call'[c].db_ops = 0
                /\ store' = store
          /\ call[c].pc = "lookup" /\ call'[c] # call[c]
             /\ UsableId(RecAt(c, call[c].idx))
             /\ Existing(store, Get(RecAt(c, call[c].idx), "id"))
             => /\ store' = store
                /\ call'[c].pc # "commit"
                /\ call'[c].exc = "none"
                /\ call'[c].saved_tweets = call[c].saved_tweets
                /\ (\A i \in 1..Len(call'[c].outcomes) : call'[c].outcomes[i] = "exists")
                   /\ call'[c].pc = "done"
                   => ReturnsEmpty(call'[c])
      ]_vars

\* one call got an empty upstream list; another found both of its records stored
\* with other data and returned the empty list
C12_Witness ==
    /\ \E c \in Calls :
          /\ Done(c) /\ call[c].searches = 1 /\ call[c].tweets_data = <<>>
          /\ ReturnsEmpty(call[c])
    /\ \E c \in Calls :
          /\ ReturnsEmpty(call[c])
          /\ call[c].outcomes = <<"exists", "exists">>
          /\ \E i \in 1..2 : \E r \in RowsWith(Get(RecAt(c, i), "id")) :
                store[r].text # RecAt(c, i).text

\* the created_at of the record is absent, null, not a string, or a string that
\* is not a timestamp
Unparsable(d) == d.kind # "str" \/ d.body \notin IsoBodies

\* the record was not handled as far as the insert, or the store failed
NotInserted(outcome) ==
    outcome \in {"exists", "lookup_failed", "commit_failed", "refresh_failed"}

\* C13: a record with a usable id that is not stored yet and a created_at that is
\* absent or cannot be parsed, whatever its value, is inserted with created_at
\* null (unless the store itself fails): the parsing never skips it.
C13_BadDateStillStored ==
    \A c \in Calls : \A i \in 1..Len(call[c].outcomes) :
        /\ UsableId(RecAt(c, i))
        /\ Unparsable(RecAt(c, i).created_at)
        /\ ~NotInserted(call[c].outcomes[i])
        => /\ call[c].outcomes[i] = "saved"
           /\ \A r \in RowsWith(Get(RecAt(c, i), "id")) : store[r].created_at = DateNone

\* the suffixes of a well-formed timestamp: the UTC marker or an explicit offset
OffsetSuffixes == {"Z", "+00:00", "+02:00", "-05:00"}

\* C14: a record inserted with a well-formed ISO-8601 created_at that ends with Z
\* or carries an explicit offset, positive or negative, is stored with a created_at
\* that is not null.
C14_OffsetsParsed ==
    \A c \in Calls : \A i \in 1..Len(call[c].outcomes) :
        /\ call[c].outcomes[i] = "saved"
        /\ RecAt(c, i).created_at.kind = "str"
        /\ RecAt(c, i).created_at.body \in IsoBodies
        /\ RecAt(c, i).created_at.suffix \in OffsetSuffixes
        => \A r \in RowsWith(Get(RecAt(c, i), "id")) : store[r].created_at.kind = "datetime"

\* C15: a record without a usable id (not an object, id absent, null, empty or
\* whitespace-only) is skipped without an error and without a row: no row holds
\* such an id, the record is not counted as an error, the call raises nothing and
\* goes on with the next record, and a later record that does not fail itself is
\* in the store.
C15_NoIdSkipped ==
    /\ \A r \in 1..Len(store) : store[r].tweet_id \notin {None, Absent, "", " "}
    /\ \A c \in Calls : \A i \in 1..Len(call[c].outcomes) :
          ~UsableId(RecAt(c, i)) =>
              /\ call[c].outcomes[i] \in {"not_dict", "no_id"}
              /\ call[c].exc = "none"
              /\ call[c].errors_count =
                    Cardinality({j \in 1..Len(call[c].outcomes) :
                                    call[c].outcomes[j] = "exception"})
              /\ Done(c) => Len(call[c].outcomes) = Len(call[c].tweets_data)
              /\ ~Done(c) =>
                    /\ call[c].pc \in {"lookup", "commit"}
                    /\ call[c].idx = Len(call[c].outcomes) + 1
              /\ \A j \in (i + 1)..Len(call[c].outcomes) :
                    UsableId(RecAt(c, j)) /\ ~Failed(call[c].outcomes[j]) =>
                        Existing(store, Get(RecAt(c, j), "id"))

\* a batch began with a record whose id is whitespace and its second record was
\* inserted
C15_Witness ==
    \E c \in Calls :
        /\ Done(c) /\ call[c].status = 200
        /\ Len(call[c].tweets_data) = 2
        /\ RecAt(c, 1).dict /\ RecAt(c, 1).id = " "
        /\ call[c].outcomes = <<"no_id", "saved">>
        /\ call[c].saved_tweets = <<store[Len(store)]>>

\* a search of the client that was called directly
ClientCalled(c) == call[c].via = "client"

\* C16: whatever integer max_results the client's search is called with, the
\* request is sent, and the max_results it carries is min(100, max(10,
\* max_results)): 10 for a value below 10, 100 for a value above 100, the value
\* itself otherwise.
C16_MaxResultsClamped ==
    \A c \in Calls :
        ClientCalled(c) =>
            /\ call[c].pc = "http" \/ call[c].attempts >= 1
            /\ call[c].sent_max = Min(100, Max(10, call[c].max_results))
            /\ call[c].max_results < 10 => call[c].sent_max = 10
            /\ call[c].max_results > 100 => call[c].sent_max = 100
            /\ call[c].max_results \in 10..100 => call[c].sent_max = call[c].max_results

\* a search called with a negative max_results got its answer
C16_Witness ==
    \E c \in Calls :
        /\ ClientCalled(c) /\ Done(c)
        /\ call[c].max_results = -1 /\ call[c].sent_max = 10
        /\ call[c].last_attempt = AttemptResult("status", 200)
        /\ call[c].exc = "none"

\* C17: a search of the client that fails, fails with TwitterAPIError and with no
\* other exception.
C17_SingleErrorKind ==
    \A c \in Calls :
        ClientCalled(c) => call[c].search_raise \in {"none", "TwitterAPIError"}

\* C18: one search makes a further attempt only after a transient failure (429,
\* 500, 502, 503, 504, no connection, timeout) and at most 3 of them after the
\* first; after a fourth transient failure, or after any other error status, it is
\* over and has raised TwitterAPIError; and every search that was started ends.
C18_BoundedRetries ==
    LET transient(a) == \/ a.kind \in {"connection_error", "timeout"}
                        \/ a.kind = "status" /\ a.status \in {429, 500, 502, 503, 504}
    IN
    /\ [](\A c \in Calls :
            ClientCalled(c) =>
                /\ call[c].attempts <= 3 + 1
                /\ call[c].pc = "http" =>
                      /\ call[c].attempts <= 3
                      /\ call[c].attempts >= 1 => transient(call[c].last_attempt)
                /\ Done(c) =>
                      /\ call[c].attempts >= 1
                      /\ transient(call[c].last_attempt) =>
                            /\ call[c].attempts = 3 + 1
                            /\ call[c].exc = "TwitterAPIError"
                      /\ call[c].last_attempt.kind = "status"
                         /\ ~transient(call[c].last_attempt)
                         /\ call[c].last_attempt.status # 200
                         => call[c].exc = "TwitterAPIError")
    /\ \A c \in Calls : (call[c].pc = "http") ~> Done(c)

\* a search met 503 four times and raised TwitterAPIError
C18_Witness ==
    \E c \in Calls :
        /\ ClientCalled(c) /\ Done(c)
        /\ call[c].attempts = 4
        /\ call[c].last_attempt = AttemptResult("status", 503)
        /\ call[c].exc = "TwitterAPIError"

\* the lowercased hashtags of the stored texts, in the order the scan meets them
RECURSIVE AllTags(_)
AllTags(st) ==
    IF st = <<>> THEN <<>>
    ELSE (IF Head(st).text = None THEN <<>> ELSE LowerAll(FindAllHashtags(Head(st).text)))
         \o AllTags(Tail(st))

TagSet(st) == {AllTags(st)[i] : i \in 1..Len(AllTags(st))}
\* how often the hashtag occurs in the stored texts, whatever its case
Occurrences(st, tag) == Cardinality({i \in 1..Len(AllTags(st)) : AllTags(st)[i] = tag})
\* where the scan meets the hashtag first
FirstSeen(st, tag) ==
    CHOOSE i \in 1..Len(AllTags(st)) :
        /\ AllTags(st)[i] = tag
        /\ \A j \in 1..(i - 1) : AllTags(st)[j] # tag
\* how many stored records hold the hashtag in their text, whatever its case
RecordsWith(st, tag) ==
    Cardinality({r \in 1..Len(st) :
        /\ st[r].text # None
        /\ \E i \in 1..Len(FindAllHashtags(st[r].text)) :
              Lower(FindAllHashtags(st[r].text)[i]) = tag})

\* the step is an answer of get_top_hashtags whose query succeeded
HashtagsAnswered ==
    /\ response' # response
    /\ response'.op = "get_top_hashtags"
    /\ faults' = faults

C20_CountsRecords ==
    [][HashtagsAnswered =>
          \A i \in 1..Len(response'.body) :
              response'.body[i].count = RecordsWith(store, response'.body[i].key)
      ]_vars

\* C20 as amended: the count reported for a hashtag is the number of its
\* occurrences in the stored texts, whatever their case: a text that holds the
\* hashtag twice counts twice.
C20_CountsOccurrences ==
    [][HashtagsAnswered =>
          \A i \in 1..Len(response'.body) :
              /\ response'.body[i].count = Occurrences(store, response'.body[i].key)
              /\ response'.body[i].count >= RecordsWith(store, response'.body[i].key)
      ]_vars

\* a report over a corpus with a text that holds one hashtag twice
C20_Witness ==
    /\ response.op = "get_top_hashtags"
    /\ \E i \in 1..Len(response.body) :
          /\ response.body[i].key = "#py"
          /\ response.body[i].count = 3
          /\ RecordsWith(store, "#py") = 2

\* the hashtags as the stored texts spell them, in the order the scan meets them
RECURSIVE RawTags(_)
RawTags(st) ==
    IF st = <<>> THEN <<>>
    ELSE (IF Head(st).text = None THEN <<>> ELSE FindAllHashtags(Head(st).text))
         \o RawTags(Tail(st))

\* the lowercase hashtags of the model and the spellings that differ from them
\* only in letter case
LowercaseTags == {"#fastapi", "#py", "#ai"}
CaseVariants(tag) ==
    CASE tag = "#fastapi" -> {"#fastapi", "#FastAPI"}
      [] tag = "#py" -> {"#py", "#Py"}
      [] OTHER -> {tag}

VolumeAnswered ==
    /\ response'.op = "volume"
    /\ faults' = faults
    /\ response.op = "volume" => response'.body # response.body

\* the stored rows whose created_at is null, and the others
NullDated(st) == {r \in 1..Len(st) : st[r].created_at.kind = "none"}
Dated(st) == {r \in 1..Len(st) : st[r].created_at.kind # "none"}

\* the sum of the counts of the buckets
RECURSIVE SumCounts(_)
SumCounts(items) ==
    IF items = <<>> THEN 0 ELSE Head(items).count + SumCounts(Tail(items))

\* C22: the volume report counts every stored record whose created_at is null
\* under the key "unknown": when the store holds such records the answer has a
\* bucket "unknown" whose count is their number.
C22_NullUnderUnknown ==
    [][VolumeAnswered /\ NullDated(store) # {} =>
          \E i \in 1..Len(response'.body) :
              /\ response'.body[i].key = Unknown
              /\ response'.body[i].count = Cardinality(NullDated(store))
      ]_vars

\* C23: the volume report puts every record with a created_at into exactly one
\* bucket, keyed by its hour, and the counts of the buckets sum to the number of
\* records with a created_at plus the number of records without one.
C23_BucketsPartition ==
    [][VolumeAnswered =>
          LET b == response'.body
          IN  /\ \A r \in Dated(store) :
                    Cardinality({i \in 1..Len(b) : b[i].key = HourKey(store[r].created_at)}) = 1
              /\ \A i \in 1..Len(b) :
                    b[i].key # Unknown =>
                        b[i].count = Cardinality({r \in Dated(store) :
                                                     HourKey(store[r].created_at) = b[i].key})
              /\ SumCounts(b) = Cardinality(Dated(store)) + Cardinality(NullDated(store))
      ]_vars

\* C24: a failure of the query inside top_hashtags or volume_by_hour is swallowed:
\* the step in which the storage fails answers with status 200 and an empty
\* report, and no answer of the two reports has status 500.
C24_ReportFailureSwallowed ==
    [][response'.op \in {"hashtags", "volume"} =>
          /\ response'.status = 200
          /\ faults' = faults + 1 => response'.body = <<>>
      ]_vars

\* the storage failed while a stored corpus with hashtags and timestamps was
\* reported on: the answer is 200 with an empty report
C24_Witness ==
    /\ faults = 1
    /\ response.op \in {"hashtags", "volume"}
    /\ response.status = 200 /\ response.body = <<>>
    /\ Dated(store) # {}
    /\ \E r \in 1..Len(store) : store[r].text = TextB

\* a step in which the listing answers without a storage fault
ListAnswered ==
    /\ response'.op = "list"
    /\ faults' = faults
    /\ response.op = "list" => response' # response

\* the stored rows that are not in the listing
NotListed(st, body) == {r \in 1..Len(st) : \A i \in 1..Len(body) : body[i] # st[r]}

\* C25: the listing rejects no limit: the limit is clamped into 1..1000 and the
\* answer holds that many stored records, or all of them when the store holds
\* fewer, each once, in descending order of created_at, and no stored record left
\* out has a greater created_at than a listed one.
C25_ListingClamped ==
    [][ListAnswered =>
          LET b == response'.body
              l == response'.limit
              n == IF l < 1 THEN 1 ELSE IF l > 1000 THEN 1000 ELSE l
          IN  /\ response'.status = 200
              /\ Len(b) = (IF Len(store) < n THEN Len(store) ELSE n)
              /\ \A i \in 1..Len(b) : \E r \in 1..Len(store) : store[r] = b[i]
              /\ \A i, j \in 1..Len(b) : i < j =>
                    b[i] # b[j] /\ CreatedKey(b[i]) >= CreatedKey(b[j])
              /\ \A r \in NotListed(store, b) :
                    \A i \in 1..Len(b) : CreatedKey(store[r]) <= CreatedKey(b[i])
      ]_vars

\* limit 0 over three stored records answers the one with the latest created_at,
\* which was stored first
C25_Witness ==
    /\ response.op = "list" /\ response.status = 200 /\ response.limit = 0
    /\ Len(store) = 3
    /\ Len(response.body) = 1
    /\ response.body[1] = store[1]
    /\ CreatedKey(store[1]) > CreatedKey(store[2])
    /\ CreatedKey(store[1]) > CreatedKey(store[3])

\* the time of the earliest stored row of a bucket, in hours
BucketTime(st, key) ==
    CHOOSE t \in {CreatedKey(st[r]) : r \in {d \in Dated(st) : HourKey(st[d].created_at) = key}} :
        TRUE

\* C26: the volume report returns its buckets in ascending lexicographic order of
\* their keys, each key once; the hour keys are thereby in chronological order,
\* and the key "unknown" sorts after every hour key.
C26_BucketsSorted ==
    [][VolumeAnswered =>
          LET b == response'.body
          IN  /\ \A i, j \in 1..Len(b) : i < j =>
                    /\ b[i].key # b[j].key
                    /\ KeyLess(b[i].key, b[j].key)
                    /\ BucketTime(store, b[i].key) < BucketTime(store, b[j].key)
              /\ \A i \in 1..Len(b) :
                    b[i].key # Unknown =>
                        KeyLess(b[i].key, Unknown) /\ ~KeyLess(Unknown, b[i].key)
      ]_vars

\* three records stored latest first are reported earliest first:
\* 2024-12-31T23, 2025-01-01T09, 2025-01-01T10
C26_Witness ==
    /\ response.op = "volume"
    /\ Len(store) = 3
    /\ store[1].created_at = Datetime("2025-01-01", 10)
    /\ store[2].created_at = Datetime("2025-01-01", 9)
    /\ store[3].created_at = Datetime("2024-12-31", 23)
    /\ Len(response.body) = 3
    /\ response.body[1].key = HourKey(store[3].created_at)
    /\ response.body[2].key = HourKey(store[2].created_at)
    /\ response.body[3].key = HourKey(store[1].created_at)

\* C27: every stored record has a text that is not null: each row a collect call
\* inserts holds the text of its upstream record, the empty string when the record
\* has no text field, and a record whose text is null is never inserted.
C27_TextNeverNull ==
    [][/\ \A r \in 1..Len(store') : store'[r].text # None
       /\ store' # store =>
             \E c \in Calls :
                 /\ call[c].pc = "commit"
                 /\ LET rec == RecAt(c, call[c].idx)
                    IN  /\ rec.text # None
                        /\ store'[Len(store')].text =
                              (IF rec.text = Absent THEN "" ELSE rec.text)
      ]_vars

\* the record without a text field is stored with the empty string, and the
\* record with a null text was handled and is not stored
C27_Witness ==
    /\ Done(1) /\ call[1].exc = "none"
    /\ Len(call[1].tweets_data) = 2
    /\ RecAt(1, 1).text = None
    /\ RecAt(1, 2).text = Absent
    /\ OutcomeAt(1, 1) = "integrity"
    /\ Len(store) = 1 /\ store[1].tweet_id = "7" /\ store[1].text = ""

StoredBy(c) ==
    Cardinality({i \in 1..Len(call[c].outcomes) : Committed(call[c].outcomes[i])})

\* C29: a collect call the route accepted (max_results in 1..100) stores and
\* returns at most max_results records, also when max_results is below 10.
C29_AtMostMaxResults ==
    \A c \in Calls :
        /\ call[c].via = "route"
        /\ CollectRequestValid(call[c].query, call[c].max_results)
        => /\ Len(call[c].saved_tweets) <= call[c].max_results
           /\ StoredBy(c) <= call[c].max_results

\* the post_ids of a sequence, as a set
IdSet(ids) == {ids[k] : k \in 1..Len(ids)}

\* C30: across the interleavings of collect calls, no post_id is in the returned
\* lists of two calls or twice in one list, and every record a call committed is
\* in the list that call returns, also when the refresh after the commit fails.
C30_ReportedByExactlyOne ==
    /\ \A c, d \in Calls : c # d => IdSet(ReturnedIds(c)) \cap IdSet(ReturnedIds(d)) = {}
    /\ \A c \in Calls :
          /\ Cardinality(IdSet(ReturnedIds(c))) = Len(call[c].saved_tweets)
          /\ Done(c) /\ call[c].exc = "none" =>
                IdSet(CommittedIds(c)) \subseteq IdSet(ReturnedIds(c))

====
